---- MODULE Spec2Model ----
(***************************************************************************)
(* A model of dist_model_recnet.py: the chunked inference procedure        *)
(* only_proc, the training epoch train_epoch, and the epoch loop of the    *)
(* main program with its checkpoints.                                      *)
(*                                                                         *)
(*   SpecProc     : one call of only_proc, statement by statement          *)
(*   SpecTrain    : one call of train_epoch, any parameters                *)
(*   SpecCall     : train_epoch as the epoch loop calls it (line 188)      *)
(*   Spec         : the main program, with process kills and re-launches   *)
(*   SpecPatience : the main program run with --validation_p set           *)
(*   SpecSession  : calls of train_epoch and only_proc on one network      *)
(*   SpecLoss     : train_epoch with step losses that differ               *)
(*                                                                         *)
(* In Spec a call of train_epoch is one step that returns, and a call of   *)
(* only_proc is one step that returns or raises as ProcOutcomes says.      *)
(***************************************************************************)
EXTENDS Integers, Sequences, FiniteSets, TLC

\* ------------------------------------------------------------------ bounds
MaxLen == 5          \* longest time axis handed to only_proc
MaxChunk == 3        \* largest chunk length (chunk, args.val_chunk)
HiddenMod == 3       \* number of values of the abstract hidden state
MaxSeg == 3          \* most segments in the training subset
MaxBatch == 3        \* largest batch size
MaxT == 5            \* longest segment (time axis of a batch)
MaxInit == 2         \* largest priming length init_len
MaxUpFr == 3         \* largest update interval (up_fr, args.up_fr)
MaxIter == 2         \* largest args.iter_num
MaxEpochs == 3       \* largest args.epochs
MaxValF == 2         \* largest args.validation_f
MaxPatience == 1     \* largest args.validation_p
MaxLoss == 2         \* validation and test losses are 1..MaxLoss
MaxMainLen == 2      \* longest validation / test subset of the main program
MaxMainChunk == 2    \* largest args.val_chunk / args.test_chunk of the main program
MaxLaunches == 2     \* how many times the process is started
MaxClock == 1        \* the wall clock stops advancing here
MaxLossSeg == 3      \* most segments in the runs that check the averages
MaxLossT == 2        \* longest segment, largest batch size and interval in those runs
MaxCalls == 3        \* how many calls a sequence of calls on one model has
MaxSessSize == 2     \* largest segment count, batch size, time length and interval in such a sequence

\* A local variable that has not been assigned yet (Python: unbound).
NoValue == 0 - 1

\* ------------------------------------------------------- only_proc's state
VARIABLES
    ppc,          \* position in only_proc
    input_data,   \* the input sequence along the time axis
    chunk,        \* the chunk parameter
    val_chunk,    \* args.val_chunk, read by line 128
    output,       \* the output tensor (torch.empty_like: arbitrary contents)
    written,      \* per time index, how many times output was assigned
    chunks,       \* lengths of the input slices handed to nnet, in order
    l,            \* the loop variable of line 123
    hidden        \* nnet's hidden state

\* only_proc's own variables: hidden belongs to the network and outlives the call
procOnly == <<ppc, input_data, chunk, val_chunk, output, written, chunks, l>>

procVars == <<ppc, input_data, chunk, val_chunk, output, written, chunks, l, hidden>>

\* ----------------------------------------------------- train_epoch's state
VARIABLES
    tpc,          \* position in train_epoch
    n_seg,        \* input_data.shape[1], the number of segments
    T,            \* input_data.shape[0], the time length of every batch
    bs,           \* the bs parameter
    init_len,     \* the init_len parameter
    up_fr,        \* the up_fr parameter
    args_up_fr,   \* args.up_fr, read by lines 101 and 110
    args_batch_size, \* args.batch_size, passed as bs by line 188
    args_iter_num,   \* args.iter_num (NoValue: None, the default)
    shuffle,      \* torch.randperm(n_seg), as a sequence of segment indices
    batch_it,     \* how many values the range of line 83 has yielded
    batch_i,      \* the loop variable of line 83
    k_it,         \* how many values the range of line 96 has yielded
    k,            \* the loop variable of line 96
    start_i,      \* the start index of the next TBPTT slice
    batches,      \* the segment indices of every mini-batch loaded, in order
    in_slices,    \* this batch's input slices handed to nnet by line 98
    tg_slices,    \* this batch's target slices handed to loss_fcn by line 101
    grad,         \* how many time steps of computation history the hidden state carries
    spans,        \* this batch's backward passes (line 102): the time steps each one spans
    batch_loss,   \* batch_loss of lines 94 and 111
    epoch_loss,   \* epoch_loss of lines 82 and 114, an exact fraction
    step_losses,  \* this batch's values of loss.item(), in order
    batch_hist,   \* the step losses of every mini-batch finished, in order
    result        \* the value train_epoch returned: <<>> until it returns

trainVars == <<tpc, n_seg, T, bs, init_len, up_fr, args_up_fr, args_batch_size,
               args_iter_num, shuffle, batch_it,
               batch_i, k_it, k, start_i, batches, in_slices, tg_slices,
               grad, spans, batch_loss, epoch_loss, step_losses, batch_hist, result>>

\* -------------------------------------------------- the main program's state
VARIABLES
    pc,           \* position in the main program
    args,         \* the parsed arguments the epoch loop reads
    data,         \* how only_proc can end on the validation and on the test subset
    network,      \* the model in memory: training_info and its parameters
    loaded,       \* the training_info init_model returned (line 148)
    disk,         \* the files of save_path: <<>> when absent, <<content>> otherwise
    epoch_it,     \* the next value of the range of line 183
    epoch,        \* the loop variable of line 183
    val_loss,     \* val_loss of line 204
    val_output,   \* val_output of line 204: <<>> while unbound
    test_output,  \* test_output of lines 231 and 241: <<>> while unbound
    io,           \* the files this process has written, in order
    now,          \* time.time()
    start_time,   \* start_time of line 135
    init_time,    \* init_time of line 179
    launches      \* how many times the program has been started

mainVars == <<pc, args, data, network, loaded, disk, epoch_it, epoch, val_loss, val_output,
              test_output, io, now, start_time, init_time, launches>>

\* -------------------------------------------- a sequence of calls on one model
VARIABLE
    calls         \* how many calls of train_epoch and only_proc have started

vars == <<procVars, trainVars, mainVars, calls>>

\* ---------------------------------------------------------------- helpers
Min(a, b) == IF a < b THEN a ELSE b
Max(a, b) == IF a > b THEN a ELSE b

\* Python's s[a:b] on a sequence of length n, for 0 <= a and -n <= b:
\* the 0-based half-open index range <<lo, hi>> it selects.
PySlice(a, b, n) ==
    LET stop == IF b < 0 THEN Max(n + b, 0) ELSE Min(b, n)
        start == Min(a, n)
    IN  <<start, Max(start, stop)>>

SliceLen(s) == s[2] - s[1]

\* The abstract stateful sequence model: one time step.
HiddenInit == 0
NnetStep(h, x) == (h + x + 1) % HiddenMod

\* nnet(x) from hidden state h: <<outputs, final hidden state>>.
RECURSIVE NnetRun(_, _)
NnetRun(h, x) ==
    IF x = <<>> THEN <<(<<>>), h>>
    ELSE LET h1 == NnetStep(h, Head(x))
             rest == NnetRun(h1, Tail(x))
         IN  <<(<<h1>>) \o rest[1], rest[2]>>

\* The 1-based subsequence of s for a 0-based half-open range r.
Sub(s, r) == SubSeq(s, r[1] + 1, r[2])

\* output[dst] = src, elementwise, or broadcast when src has length 1.
AssignSlice(out, dst, src) ==
    [i \in 1..Len(out) |->
        IF i - 1 >= dst[1] /\ i - 1 < dst[2]
        THEN (IF Len(src) = 1 THEN src[1] ELSE src[i - dst[1]])
        ELSE out[i]]

CountSlice(w, dst) ==
    [i \in 1..Len(w) |-> IF i - 1 >= dst[1] /\ i - 1 < dst[2] THEN w[i] + 1 ELSE w[i]]

\* torch accepts the assignment when the shapes agree or the source broadcasts.
Assignable(dst, srcLen) == srcLen = SliceLen(dst) \/ srcLen = 1

\* range(int(output.size()[0] / chunk))
NumFullChunks(n, c) == n \div c

\* not (output.size()[0] / chunk).is_integer()
HasRemainder(n, c) == n % c # 0

\* The input slice of the remainder pass, line 128: input_data[(l + 1) * chunk:-1]
RemainderSrc(lv, c, n) == PySlice((lv + 1) * c, 0 - 1, n)

\* The output slice of the remainder pass, line 128: output[(l + 1) * args.val_chunk:-1]
RemainderDst(lv, vc, n) == PySlice((lv + 1) * vc, 0 - 1, n)

\* ------------------------------------------------------ only_proc's steps
Samples == {0, 1}
Values == 0..(HiddenMod - 1)

SeqsOfLen(S, n) == [1..n -> S]

ProcStart ==
    /\ ppc = "loop"
    /\ \E n \in 1..MaxLen :
         /\ input_data \in SeqsOfLen(Samples, n)
         /\ output \in SeqsOfLen(Values, n)
         /\ written = [i \in 1..n |-> 0]
    /\ chunk \in 1..MaxChunk
    /\ val_chunk \in 1..MaxChunk
    /\ chunks = <<>>
    /\ l = NoValue
    /\ hidden = HiddenInit

\* Lines 123-125: one iteration of the loop over the full chunks.
ProcChunkStep ==
    /\ ppc = "loop"
    /\ LET n == Len(input_data)
           nl == IF l = NoValue THEN 0 ELSE l + 1
           r == PySlice(nl * chunk, (nl + 1) * chunk, n)
           res == NnetRun(hidden, Sub(input_data, r))
       IN  /\ nl < NumFullChunks(n, chunk)
           /\ l' = nl
           /\ output' = AssignSlice(output, r, res[1])
           /\ written' = CountSlice(written, r)
           /\ chunks' = Append(chunks, SliceLen(r))
           /\ hidden' = res[2]
    /\ UNCHANGED <<ppc, input_data, chunk, val_chunk>>

\* Line 123, the range is exhausted; line 127, the length divides evenly.
ProcNoRemainderStep ==
    /\ ppc = "loop"
    /\ (IF l = NoValue THEN 0 ELSE l + 1) >= NumFullChunks(Len(input_data), chunk)
    /\ ~HasRemainder(Len(input_data), chunk)
    /\ ppc' = "reset"
    /\ UNCHANGED <<input_data, chunk, val_chunk, output, written, chunks, l, hidden>>

\* Lines 127-128 with l unbound (no full chunk was processed): UnboundLocalError.
ProcRemainderUnboundStep ==
    /\ ppc = "loop"
    /\ (IF l = NoValue THEN 0 ELSE l + 1) >= NumFullChunks(Len(input_data), chunk)
    /\ HasRemainder(Len(input_data), chunk)
    /\ l = NoValue
    /\ ppc' = "raised"
    /\ UNCHANGED <<input_data, chunk, val_chunk, output, written, chunks, l, hidden>>

\* Lines 127-128: the remainder pass.
ProcRemainderStep ==
    /\ ppc = "loop"
    /\ (IF l = NoValue THEN 0 ELSE l + 1) >= NumFullChunks(Len(input_data), chunk)
    /\ HasRemainder(Len(input_data), chunk)
    /\ l # NoValue
    /\ LET n == Len(input_data)
           src == RemainderSrc(l, chunk, n)
           dst == RemainderDst(l, val_chunk, n)
           res == NnetRun(hidden, Sub(input_data, src))
       IN  \* an empty input slice: the recurrent layer either rejects it or
           \* returns an empty output, depending on the library version
           \/ /\ SliceLen(src) = 0
              /\ ppc' = "raised"
              /\ UNCHANGED <<output, written, chunks, hidden>>
           \/ /\ Assignable(dst, SliceLen(src))
              /\ output' = AssignSlice(output, dst, res[1])
              /\ written' = CountSlice(written, dst)
              /\ chunks' = Append(chunks, SliceLen(src))
              /\ hidden' = res[2]
              /\ ppc' = "reset"
           \/ /\ SliceLen(src) > 0
              /\ ~Assignable(dst, SliceLen(src))
              /\ hidden' = res[2]
              /\ chunks' = Append(chunks, SliceLen(src))
              /\ ppc' = "raised"
              /\ UNCHANGED <<output, written>>
    /\ UNCHANGED <<input_data, chunk, val_chunk, l>>

\* Lines 129-131: reset the hidden state, compute the loss, return.
ProcReturnStep ==
    /\ ppc = "reset"
    /\ hidden' = HiddenInit
    /\ ppc' = "returned"
    /\ UNCHANGED <<input_data, chunk, val_chunk, output, written, chunks, l>>



\* ---------------------------------------------------- train_epoch's steps
CeilDiv(a, b) == IF a <= 0 THEN 0 ELSE ((a - 1) \div b) + 1

\* A batch loop that drops the last, shorter batch (floor instead of ceil).
NumBatchesFloor(n, b) == n \div b

\* range(math.ceil(shuffle.shape[0] / bs)), line 83
NumBatches(n, b) == CeilDiv(n, b)

\* range(math.ceil((input_batch.shape[0] - init_len) / up_fr)), line 96
NumInner(t, il, uf) == CeilDiv(t - il, uf)

\* shuffle[batch_i * bs:(batch_i + 1) * bs], lines 85-86
BatchOf(sh, i, b) == Sub(sh, PySlice(i * b, (i + 1) * b, Len(sh)))

\* input_batch[start_i:start_i + up_fr], line 98
InputSlice(si, uf, t) == PySlice(si, si + uf, t)

\* target_batch[start_i:start_i + args.up_fr], line 101
TargetSlice(si, auf, t) == PySlice(si, si + auf, t)

\* start_i += args.up_fr, line 110
NextStart(si, uf, auf) == si + auf

\* loss_fcn(output, target): the shapes agree or broadcast
LossShapesOk(a, b) == a = b \/ a = 1 \/ b = 1

Perms(n) == {f \in [1..n -> 0..(n - 1)] : \A i, j \in 1..n : i # j => f[i] # f[j]}

\* The hidden states nnet can be left in by a forward pass over n time steps
\* from hidden state h, over every content of the n samples.
HiddenAfter(h, n) == {NnetRun(h, x)[2] : x \in SeqsOfLen(Samples, n)}

\* The computation history of the hidden state, counted in time steps.
\* A forward pass with gradient tracking extends it by the steps it processes;
\* detach_hidden and reset_hidden leave a state with no history; zero_grad
\* clears the parameters' gradient buffers and leaves the history alone.
GradAfterApply(g, n) == g + n
GradAfterDetach == 0
GradAfterReset == 0

\* Exact fractions <<numerator, denominator>> in lowest terms, for the averages.
RECURSIVE GCD(_, _)
GCD(a, b) == IF b = 0 THEN a ELSE GCD(b, a % b)

Rat(n, d) == IF n = 0 THEN <<0, 1>> ELSE <<n \div GCD(n, d), d \div GCD(n, d)>>

RatAdd(a, b) == Rat(a[1] * b[2] + b[1] * a[2], a[2] * b[2])

RatDiv(a, m) == Rat(a[1], a[2] * m)

\* A batch loss that is never averaged over its steps.
BatchTotal(bl, kv) == Rat(bl, 1)

\* batch_loss / (k + 1), line 114
BatchAverage(bl, kv) == Rat(bl, kv + 1)

\* epoch_loss / (batch_i + 1), line 117
EpochAverage(el, bi) == RatDiv(el, bi + 1)

\* The one loss value of the runs that do not look at losses.
OneLoss == {1}

\* The values loss.item() takes in the runs that check the averages.
StepLosses == {0, 1}

\* The accumulators and records of a call that has not started its loops.
TrainFresh ==
    /\ shuffle = <<>> /\ batch_it = 0 /\ batch_i = NoValue
    /\ k_it = 0 /\ k = NoValue /\ start_i = 0 /\ batches = <<>>
    /\ in_slices = <<>> /\ tg_slices = <<>>
    /\ spans = <<>> /\ batch_loss = 0 /\ epoch_loss = <<0, 1>>
    /\ step_losses = <<>> /\ batch_hist = <<>> /\ result = <<>>

TrainIdle ==
    /\ tpc = "idle" /\ n_seg = 0 /\ T = 0 /\ bs = 0 /\ init_len = 0 /\ up_fr = 0
    /\ args_up_fr = 0 /\ args_batch_size = 0 /\ args_iter_num = NoValue
    /\ grad = GradAfterReset
    /\ TrainFresh

ProcIdle ==
    /\ ppc = "idle" /\ input_data = <<>> /\ chunk = 0 /\ val_chunk = 0
    /\ output = <<>> /\ written = <<>> /\ chunks = <<>> /\ l = NoValue
    /\ hidden = HiddenInit

\* The call of train_epoch: its parameters and the global args.up_fr.
TrainStart ==
    /\ tpc = "start"
    /\ n_seg \in 0..MaxSeg
    /\ T \in 1..MaxT
    /\ bs \in 1..MaxBatch
    /\ init_len \in 0..MaxInit
    /\ up_fr \in 1..MaxUpFr
    /\ args_up_fr \in 1..MaxUpFr
    /\ args_batch_size = bs
    /\ args_iter_num = NoValue
    /\ grad = GradAfterReset
    /\ TrainFresh

\* The batch size the main program hands to train_epoch (line 188).
BatchSizeUsed(batch_size, iter_num, n) == batch_size

\* The call of train_epoch by the epoch loop, lines 187-188: the parameters
\* are args.batch_size, args.init_len and args.up_fr.
TrainCalledByMain ==
    /\ tpc = "start"
    /\ n_seg \in 1..MaxSeg
    /\ T \in 1..MaxT
    /\ args_batch_size \in 1..MaxBatch
    /\ args_iter_num \in {NoValue} \cup (1..MaxIter)
    /\ args_up_fr \in 1..MaxUpFr
    /\ init_len \in 0..MaxInit
    /\ bs = BatchSizeUsed(args_batch_size, args_iter_num, n_seg)
    /\ up_fr = args_up_fr
    /\ grad = GradAfterReset
    /\ TrainFresh

\* Lines 79-82: draw the permutation of the segments.
TrainShuffle ==
    /\ tpc = "start"
    /\ shuffle' \in Perms(n_seg)
    /\ epoch_loss' = <<0, 1>>
    /\ tpc' = "batch"
    /\ UNCHANGED <<n_seg, T, bs, init_len, up_fr, args_up_fr, args_batch_size, args_iter_num, batch_it, batch_i,
                   k_it, k, start_i, batches, in_slices, tg_slices,
                   hidden, grad, spans, batch_loss, step_losses, batch_hist, result>>

\* Lines 83-94: load the next mini-batch, prime the hidden state.
TrainBatchStart ==
    /\ tpc = "batch"
    /\ batch_it < NumBatches(Len(shuffle), bs)
    /\ batch_i' = batch_it
    /\ batch_it' = batch_it + 1
    /\ batches' = Append(batches, BatchOf(shuffle, batch_it, bs))
    /\ in_slices' = <<>>
    /\ tg_slices' = <<>>
    /\ spans' = <<>>
    /\ step_losses' = <<>>
    /\ LET p == SliceLen(PySlice(0, init_len, T))
       IN  \* line 89, the priming pass; an empty slice may be rejected
           \/ /\ p = 0
              /\ tpc' = "raised"
              /\ UNCHANGED <<hidden, grad, start_i, k_it, batch_loss>>
           \/ /\ hidden' \in HiddenAfter(hidden, p)
              /\ grad' = GradAfterApply(grad, p)
              /\ start_i' = init_len
              /\ batch_loss' = 0
              /\ k_it' = 0
              /\ tpc' = "inner"
    /\ UNCHANGED <<n_seg, T, bs, init_len, up_fr, args_up_fr, args_batch_size, args_iter_num, shuffle, k,
                   epoch_loss, batch_hist, result>>

\* Lines 96-111: one TBPTT iteration; losses: the values loss.item() can take.
TrainInnerStep(losses) ==
    /\ tpc = "inner"
    /\ k_it < NumInner(T, init_len, up_fr)
    /\ k' = k_it
    /\ k_it' = k_it + 1
    /\ LET is == InputSlice(start_i, up_fr, T)
           ts == TargetSlice(start_i, args_up_fr, T)
       IN  /\ in_slices' = Append(in_slices, is)
           /\ \/ /\ SliceLen(is) = 0      \* an empty input slice may be rejected
                 /\ tpc' = "raised"
                 /\ UNCHANGED <<tg_slices, start_i, hidden, grad, spans, batch_loss, step_losses>>
              \/ /\ tg_slices' = Append(tg_slices, ts)
                 /\ hidden' \in HiddenAfter(hidden, SliceLen(is))
                 /\ IF LossShapesOk(SliceLen(is), SliceLen(ts))
                    THEN \* lines 102-111: backward through the history, then detach
                         /\ spans' = Append(spans, GradAfterApply(grad, SliceLen(is)))
                         /\ grad' = GradAfterDetach
                         /\ \E loss \in losses :
                              /\ batch_loss' = batch_loss + loss
                              /\ step_losses' = Append(step_losses, loss)
                         /\ start_i' = NextStart(start_i, up_fr, args_up_fr)
                         /\ tpc' = "inner"
                    ELSE /\ tpc' = "raised"
                         /\ grad' = GradAfterApply(grad, SliceLen(is))
                         /\ UNCHANGED <<start_i, spans, batch_loss, step_losses>>
    /\ UNCHANGED <<n_seg, T, bs, init_len, up_fr, args_up_fr, args_batch_size, args_iter_num, shuffle, batch_it,
                   batch_i, batches, epoch_loss, batch_hist, result>>

\* A batch end that leaves the hidden state as the last chunk left it.
TrainBatchEndNoReset ==
    /\ tpc = "inner"
    /\ k_it >= NumInner(T, init_len, up_fr)
    /\ IF k = NoValue
       THEN /\ tpc' = "raised"
            /\ UNCHANGED <<epoch_loss, batch_hist>>
       ELSE /\ epoch_loss' = RatAdd(epoch_loss, BatchAverage(batch_loss, k))
            /\ batch_hist' = Append(batch_hist, step_losses)
            /\ tpc' = "batch"
    /\ UNCHANGED <<n_seg, T, bs, init_len, up_fr, args_up_fr, args_batch_size, args_iter_num, shuffle, batch_it,
                   batch_i, k_it, k, start_i, batches, in_slices, tg_slices,
                   hidden, grad, spans, batch_loss, step_losses, result>>

\* Lines 113-115: the inner loop is over; average the batch loss over k + 1,
\* reset the hidden state.
TrainBatchEnd ==
    /\ tpc = "inner"
    /\ k_it >= NumInner(T, init_len, up_fr)
    /\ IF k = NoValue
       THEN /\ tpc' = "raised"          \* line 114 reads the unbound k
            /\ UNCHANGED <<epoch_loss, batch_hist, hidden, grad>>
       ELSE /\ epoch_loss' = RatAdd(epoch_loss, BatchAverage(batch_loss, k))
            /\ batch_hist' = Append(batch_hist, step_losses)
            /\ hidden' = HiddenInit
            /\ grad' = GradAfterReset
            /\ tpc' = "batch"
    /\ UNCHANGED <<n_seg, T, bs, init_len, up_fr, args_up_fr, args_batch_size, args_iter_num, shuffle, batch_it,
                   batch_i, k_it, k, start_i, batches, in_slices, tg_slices,
                   spans, batch_loss, step_losses, result>>

\* Line 117: every batch is done; average the epoch loss over batch_i + 1.
TrainReturn ==
    /\ tpc = "batch"
    /\ batch_it >= NumBatches(Len(shuffle), bs)
    /\ IF batch_i = NoValue
       THEN /\ tpc' = "raised"          \* line 117 reads the unbound batch_i
            /\ UNCHANGED result
       ELSE /\ result' = <<EpochAverage(epoch_loss, batch_i)>>
            /\ tpc' = "returned"
    /\ UNCHANGED <<n_seg, T, bs, init_len, up_fr, args_up_fr, args_batch_size, args_iter_num, shuffle, batch_it,
                   batch_i, k_it, k, start_i, batches, in_slices, tg_slices,
                   hidden, grad, spans, batch_loss, epoch_loss, step_losses, batch_hist>>

\* ------------------------------------------------ the main program's steps
Losses == 1..MaxLoss

\* The loss train_epoch returns; the epoch loop never reads its value, which
\* is left out: every entry of training_losses is this one token.
EpochLoss == "epoch_loss"

\* The loss of a test evaluation: written to its report and never read.
TestLoss == "test_loss"

\* best_val_loss of a fresh model: above every loss.
Infinity == MaxLoss + 1

\* The training_info of a new model, and the new model.
FreshInfo ==
    [current_epoch |-> 0, training_losses |-> <<>>, validation_losses |-> <<>>,
     best_val_loss |-> Infinity, total_time |-> 0]

FreshNetwork == [training_info |-> FreshInfo, params |-> 0]

FileNames ==
    {"model", "model_best", "bestvloss.txt", "best_val_out.wav", "testloss_final.txt",
     "test_out_final.wav", "testloss_bestv.txt", "test_out_bestv.wav", "maxmemusage.txt"}

\* save_path after init_model has created and saved a new model (line 148).
FreshDisk == [f \in FileNames |-> IF f = "model" THEN <<FreshNetwork>> ELSE <<>>]

WriteFile(d, f, content) == [d EXCEPT ![f] = <<content>>]

\* total_time is kept in hours; the model keeps it as the exact number of
\* seconds it stands for, so seconds -> hours -> seconds loses nothing.
\* init_time of line 179: time.time() - start_time + total_time * 3600
InitTimeOf(t, st, total) == t - st + total

\* total_time of line 228: (init_time + time.time() - start_time) / 3600
TotalTimeOf(it, t, st) == it + t - st

\* A loop that starts again at the epoch the checkpoint already holds.
FirstEpochRepeated(info) == info.current_epoch

\* range(network.training_info['current_epoch'] + 1, args.epochs + 1), line 183
FirstEpoch(info) == info.current_epoch + 1

\* A test that counts the epochs from zero.
IsValidationEpochZeroBased(e, vf) == (e - 1) % vf = 0

\* epoch % args.validation_f == 0, line 201
IsValidationEpoch(e, vf) == e % vf = 0

\* A comparison that also takes a loss equal to the best one.
ImprovesOrEqual(vl, best) == vl <= best

\* val_loss < network.training_info['best_val_loss'], line 212
Improves(vl, best) == vl < best

\* How a call of only_proc on n samples can end.
ProcOutcomes(n, c, vc) ==
    IF ~HasRemainder(n, c) THEN {"returned"}
    ELSE IF NumFullChunks(n, c) = 0 THEN {"raised"}
    ELSE LET lv == NumFullChunks(n, c) - 1
             src == RemainderSrc(lv, c, n)
             dst == RemainderDst(lv, vc, n)
         IN  (IF SliceLen(src) = 0 THEN {"raised"} ELSE {})
             \cup (IF Assignable(dst, SliceLen(src)) THEN {"returned"} ELSE {"raised"})

Ticks == {d \in {0, 1} : now + d <= MaxClock}

MainIdle ==
    /\ pc = "idle" /\ args = <<>> /\ data = <<>> /\ network = <<>> /\ disk = <<>>
    /\ loaded = <<>>
    /\ epoch_it = 0 /\ epoch = NoValue /\ val_loss = NoValue /\ val_output = <<>>
    /\ test_output = <<>> /\ io = <<>> /\ now = 0
    /\ start_time = 0 /\ init_time = 0 /\ launches = 0

\* The default of --validation_p (line 37): no early stopping.
DefaultPatience == 0

\* Lines 135-182, no saved model in save_path: a new model is created.
\* patiences: the values of --validation_p the run may be given.
MainStart(patiences) ==
    /\ args \in [epochs : 1..MaxEpochs, validation_f : 1..MaxValF,
                 validation_p : patiences]
    /\ \E val_len, test_len \in 1..MaxMainLen, vc, tc \in 1..MaxMainChunk :
         \* args.val_chunk and args.test_chunk with the subsets' lengths decide
         \* how only_proc ends; the state keeps that and not the numbers
         data = [val |-> ProcOutcomes(val_len, vc, vc),
                 test |-> ProcOutcomes(test_len, tc, vc)]
    /\ network = FreshNetwork
    /\ loaded = FreshInfo
    /\ disk = FreshDisk
    /\ start_time = 0
    /\ now = 0
    /\ init_time = InitTimeOf(now, start_time, FreshInfo.total_time)
    /\ epoch_it = FirstEpoch(FreshInfo)
    /\ epoch = NoValue /\ val_loss = NoValue /\ val_output = <<>>
    /\ test_output = <<>> /\ io = <<>>
    /\ launches = 1
    /\ pc = "loop"

\* The process is killed, wherever it is, and the program is started again:
\* lines 135-182 with the saved model of save_path loaded by init_model.
MainRelaunch ==
    /\ launches < MaxLaunches
    /\ launches' = launches + 1
    /\ network' = disk["model"][1]
    /\ loaded' = network'.training_info
    /\ start_time' = now
    /\ \E d \in Ticks : now' = now + d
    /\ init_time' = InitTimeOf(now', start_time', network'.training_info.total_time)
    /\ epoch_it' = FirstEpoch(network'.training_info)
    /\ epoch' = NoValue /\ val_loss' = NoValue /\ val_output' = <<>>
    /\ test_output' = <<>> /\ io' = <<>>
    /\ pc' = "loop"
    /\ UNCHANGED <<args, data, disk>>

\* Line 183: the next epoch, or the end of the loop.
MainLoopNext ==
    /\ pc = "loop"
    /\ epoch_it <= args.epochs
    /\ epoch' = epoch_it
    /\ epoch_it' = epoch_it + 1
    /\ pc' = "train"
    /\ UNCHANGED <<args, data, network, loaded, disk, val_loss, val_output, test_output, io, now, start_time, init_time, launches>>

MainLoopEnd ==
    /\ pc = "loop"
    /\ epoch_it > args.epochs
    /\ pc' = "test_final"
    /\ UNCHANGED <<args, data, network, loaded, disk, epoch_it, epoch, val_loss, val_output,
                   test_output, io, now, start_time, init_time, launches>>

\* Lines 184-198: one epoch of training; its loss joins the history.
MainTrain ==
    /\ pc = "train"
    /\ network' = [network EXCEPT
                     !.training_info.training_losses = Append(@, EpochLoss),
                     !.params = epoch]
    /\ \E d \in Ticks : now' = now + d
    /\ pc' = "val"
    /\ UNCHANGED <<args, data, loaded, disk, epoch_it, epoch, val_loss, val_output,
                   test_output, io, start_time, init_time, launches>>

\* A loop that saves the 'latest' checkpoint on validation epochs only.
MainSkipValidationAndSave ==
    /\ pc = "val"
    /\ ~IsValidationEpoch(epoch, args.validation_f)
    /\ pc' = "loop"
    /\ UNCHANGED <<args, data, network, loaded, disk, epoch_it, epoch, val_loss,
                   val_output, test_output, io, now, start_time, init_time, launches>>

\* Line 201, not a validation epoch.
MainSkipValidation ==
    /\ pc = "val"
    /\ ~IsValidationEpoch(epoch, args.validation_f)
    /\ pc' = "latest"
    /\ UNCHANGED <<args, data, network, loaded, disk, epoch_it, epoch, val_loss, val_output,
                   test_output, io, now, start_time, init_time, launches>>

\* Lines 201-210: validation; the loss joins the history.
MainValidate ==
    /\ pc = "val"
    /\ IsValidationEpoch(epoch, args.validation_f)
    /\ \E res \in data.val :
         IF res = "raised"
         THEN /\ pc' = "raised_in_epoch"
              /\ UNCHANGED <<network, val_loss, val_output>>
         ELSE /\ \E loss \in Losses :
                   /\ val_loss' = loss
                   /\ network' = [network EXCEPT
                                    !.training_info.validation_losses = Append(@, loss),
                                    !.training_info.current_epoch = epoch]
              /\ val_output' = <<[subset |-> "val", params |-> network.params]>>
              /\ pc' = "best"
    /\ UNCHANGED <<args, data, loaded, disk, epoch_it, epoch, test_output, io,
                   now, start_time, init_time, launches>>

\* A new best validation loss that the training record is never told.
MainNewBestNotRecorded ==
    /\ pc = "best"
    /\ Improves(val_loss, network.training_info.best_val_loss)
    /\ pc' = "bestvloss"
    /\ UNCHANGED <<args, data, network, loaded, disk, epoch_it, epoch, val_loss, val_output,
                   test_output, io, now, start_time, init_time, launches>>

\* Lines 212-213: a new best validation loss.
MainNewBest ==
    /\ pc = "best"
    /\ Improves(val_loss, network.training_info.best_val_loss)
    /\ network' = [network EXCEPT !.training_info.best_val_loss = val_loss]
    /\ pc' = "bestvloss"
    /\ UNCHANGED <<args, data, loaded, disk, epoch_it, epoch, val_loss, val_output,
                   test_output, io, now, start_time, init_time, launches>>

\* Line 212, no improvement.
MainNoBest ==
    /\ pc = "best"
    /\ ~Improves(val_loss, network.training_info.best_val_loss)
    /\ pc' = "latest"
    /\ UNCHANGED <<args, data, network, loaded, disk, epoch_it, epoch, val_loss, val_output,
                   test_output, io, now, start_time, init_time, launches>>

\* Lines 214-215: bestvloss.txt.
MainWriteBestVLoss ==
    /\ pc = "bestvloss"
    /\ disk' = WriteFile(disk, "bestvloss.txt", val_loss)
    /\ io' = Append(io, "bestvloss.txt")
    /\ pc' = "save_best"
    /\ UNCHANGED <<args, data, network, loaded, epoch_it, epoch, val_loss, val_output,
                   test_output, now, start_time, init_time, launches>>

\* Line 216: the 'best' checkpoint.
MainSaveBest ==
    /\ pc = "save_best"
    /\ disk' = WriteFile(disk, "model_best", network)
    /\ io' = Append(io, "model_best")
    /\ pc' = "best_wav"
    /\ UNCHANGED <<args, data, network, loaded, epoch_it, epoch, val_loss, val_output,
                   test_output, now, start_time, init_time, launches>>

\* Lines 217-218: best_val_out.wav.
MainWriteBestWav ==
    /\ pc = "best_wav"
    /\ disk' = WriteFile(disk, "best_val_out.wav", val_output[1])
    /\ io' = Append(io, "best_val_out.wav")
    /\ pc' = "latest"
    /\ UNCHANGED <<args, data, network, loaded, epoch_it, epoch, val_loss, val_output,
                   test_output, now, start_time, init_time, launches>>

\* Lines 227-229: the 'latest' checkpoint.
MainSaveLatest ==
    /\ pc = "latest"
    /\ network' = [network EXCEPT
                     !.training_info.current_epoch = epoch,
                     !.training_info.total_time = TotalTimeOf(init_time, now, start_time)]
    /\ disk' = WriteFile(disk, "model", network')
    /\ io' = Append(io, "model")
    /\ pc' = "loop"
    /\ UNCHANGED <<args, data, loaded, epoch_it, epoch, val_loss, val_output, test_output, now, start_time, init_time, launches>>

\* Lines 231-235: the test set with the final model; testloss_final.txt.
MainTestFinal ==
    /\ pc = "test_final"
    /\ \E res \in data.test :
         IF res = "raised"
         THEN /\ pc' = "raised"
              /\ UNCHANGED <<test_output, disk, io>>
         ELSE /\ disk' = WriteFile(disk, "testloss_final.txt", TestLoss)
              /\ test_output' = <<[subset |-> "test", params |-> network.params]>>
              /\ io' = Append(io, "testloss_final.txt")
              /\ pc' = "wav_final"
    /\ UNCHANGED <<args, data, network, loaded, epoch_it, epoch, val_loss, val_output,
                   now, start_time, init_time, launches>>

\* Lines 236-237: test_out_final.wav, rendered from val_output.
MainWriteFinalWav ==
    /\ pc = "wav_final"
    /\ IF val_output = <<>>
       THEN /\ pc' = "raised"           \* NameError: val_output is not defined
            /\ UNCHANGED <<disk, io>>
       ELSE /\ disk' = WriteFile(disk, "test_out_final.wav", val_output[1])
            /\ io' = Append(io, "test_out_final.wav")
            /\ pc' = "load_best"
    /\ UNCHANGED <<args, data, network, loaded, epoch_it, epoch, val_loss, val_output,
                   test_output, now, start_time, init_time, launches>>

\* Lines 239-240: the model of the 'best' checkpoint replaces the network.
MainLoadBest ==
    /\ pc = "load_best"
    /\ IF disk["model_best"] = <<>>
       THEN /\ pc' = "raised"           \* no model_best file to load
            /\ UNCHANGED network
       ELSE /\ network' = disk["model_best"][1]
            /\ pc' = "test_best"
    /\ UNCHANGED <<args, data, loaded, disk, epoch_it, epoch, val_loss, val_output,
                   test_output, io, now, start_time, init_time, launches>>

\* Lines 241-249: the test set with the best model; its three files.
MainTestBest ==
    /\ pc = "test_best"
    /\ \E res \in data.test :
         IF res = "raised"
         THEN /\ pc' = "raised"
              /\ UNCHANGED <<test_output, disk, io>>
         ELSE /\ test_output' = <<[subset |-> "test", params |-> network.params]>>
              /\ disk' = [disk EXCEPT
                            !["testloss_bestv.txt"] = <<TestLoss>>,
                            !["test_out_bestv.wav"] = test_output',
                            !["maxmemusage.txt"] = <<"max_memory_allocated">>]
              /\ io' = io \o <<"testloss_bestv.txt", "test_out_bestv.wav", "maxmemusage.txt">>
              /\ pc' = "exit"
    /\ UNCHANGED <<args, data, network, loaded, epoch_it, epoch, val_loss, val_output,
                   now, start_time, init_time, launches>>

\* ---------------------------------------------------------- specifications
ProcChunk == ProcChunkStep /\ UNCHANGED <<trainVars, mainVars, calls>>
ProcNoRemainder == ProcNoRemainderStep /\ UNCHANGED <<trainVars, mainVars, calls>>
ProcRemainderUnbound == ProcRemainderUnboundStep /\ UNCHANGED <<trainVars, mainVars, calls>>
ProcRemainder == ProcRemainderStep /\ UNCHANGED <<trainVars, mainVars, calls>>
ProcReturn == ProcReturnStep /\ UNCHANGED <<trainVars, mainVars, calls>>

InitProc == ProcStart /\ TrainIdle /\ MainIdle /\ calls = 0

NextProc ==
    \/ ProcChunk
    \/ ProcNoRemainder
    \/ ProcRemainderUnbound
    \/ ProcRemainder
    \/ ProcReturn

SpecProc == InitProc /\ [][NextProc]_vars

Shuffle == TrainShuffle /\ UNCHANGED <<procOnly, mainVars, calls>>
BatchStart == TrainBatchStart /\ UNCHANGED <<procOnly, mainVars, calls>>
\* Under SpecTrain and SpecCall the loss of every step is the same value:
\* nothing stated there reads it.
InnerStep == TrainInnerStep(OneLoss) /\ UNCHANGED <<procOnly, mainVars, calls>>
BatchEnd == TrainBatchEnd /\ UNCHANGED <<procOnly, mainVars, calls>>
Return == TrainReturn /\ UNCHANGED <<procOnly, mainVars, calls>>

InitTrain == TrainStart /\ ProcIdle /\ MainIdle /\ calls = 0

NextTrain ==
    \/ Shuffle
    \/ BatchStart
    \/ InnerStep
    \/ BatchEnd
    \/ Return

SpecTrain == InitTrain /\ [][NextTrain]_vars

InitCall == TrainCalledByMain /\ ProcIdle /\ MainIdle /\ calls = 0

SpecCall == InitCall /\ [][NextTrain]_vars

Relaunch == MainRelaunch /\ UNCHANGED <<procVars, trainVars, calls>>
LoopNext == MainLoopNext /\ UNCHANGED <<procVars, trainVars, calls>>
LoopEnd == MainLoopEnd /\ UNCHANGED <<procVars, trainVars, calls>>
Train == MainTrain /\ UNCHANGED <<procVars, trainVars, calls>>
SkipValidation == MainSkipValidation /\ UNCHANGED <<procVars, trainVars, calls>>
Validate == MainValidate /\ UNCHANGED <<procVars, trainVars, calls>>
NewBest == MainNewBest /\ UNCHANGED <<procVars, trainVars, calls>>
NoBest == MainNoBest /\ UNCHANGED <<procVars, trainVars, calls>>
WriteBestVLoss == MainWriteBestVLoss /\ UNCHANGED <<procVars, trainVars, calls>>
SaveBest == MainSaveBest /\ UNCHANGED <<procVars, trainVars, calls>>
WriteBestWav == MainWriteBestWav /\ UNCHANGED <<procVars, trainVars, calls>>
SaveLatest == MainSaveLatest /\ UNCHANGED <<procVars, trainVars, calls>>
TestFinal == MainTestFinal /\ UNCHANGED <<procVars, trainVars, calls>>
WriteFinalWav == MainWriteFinalWav /\ UNCHANGED <<procVars, trainVars, calls>>
LoadBest == MainLoadBest /\ UNCHANGED <<procVars, trainVars, calls>>
TestBest == MainTestBest /\ UNCHANGED <<procVars, trainVars, calls>>

Init == MainStart({DefaultPatience}) /\ ProcIdle /\ TrainIdle /\ calls = 0

Next ==
    \/ Relaunch
    \/ LoopNext
    \/ LoopEnd
    \/ Train
    \/ SkipValidation
    \/ Validate
    \/ NewBest
    \/ NoBest
    \/ WriteBestVLoss
    \/ SaveBest
    \/ WriteBestWav
    \/ SaveLatest
    \/ TestFinal
    \/ WriteFinalWav
    \/ LoadBest
    \/ TestBest

Spec == Init /\ [][Next]_vars

\* The main program run with early stopping asked for.
InitPatience == MainStart(1..MaxPatience) /\ ProcIdle /\ TrainIdle /\ calls = 0

SpecPatience == InitPatience /\ [][Next]_vars

\* The call of train_epoch by the epoch loop, in the runs that check the
\* averages of the losses.
TrainCalledForLosses ==
    /\ tpc = "start"
    /\ n_seg \in 1..MaxLossSeg
    /\ T \in 1..MaxLossT
    /\ args_batch_size \in 1..MaxLossT
    /\ args_iter_num = NoValue
    /\ args_up_fr \in 1..MaxLossT
    /\ init_len \in 0..(MaxLossT - 1)
    /\ bs = BatchSizeUsed(args_batch_size, args_iter_num, n_seg)
    /\ up_fr = args_up_fr
    /\ grad = GradAfterReset
    /\ TrainFresh

InnerStepLoss == TrainInnerStep(StepLosses) /\ UNCHANGED <<procOnly, mainVars, calls>>

InitLoss == TrainCalledForLosses /\ ProcIdle /\ MainIdle /\ calls = 0

NextLoss ==
    \/ Shuffle
    \/ BatchStart
    \/ InnerStepLoss
    \/ BatchEnd
    \/ Return

SpecLoss == InitLoss /\ [][NextLoss]_vars

\* ------------------------------------- a sequence of calls on one model
\* The main program calls train_epoch (line 187) and only_proc (lines 204,
\* 231, 241) one after the other on the same network: each call starts from
\* the hidden state the call before it left.
\* The accumulators and records of the call that starts (as TrainFresh).
TrainFreshNext ==
    /\ shuffle' = <<>> /\ batch_it' = 0 /\ batch_i' = NoValue
    /\ k_it' = 0 /\ k' = NoValue /\ start_i' = 0 /\ batches' = <<>>
    /\ in_slices' = <<>> /\ tg_slices' = <<>>
    /\ spans' = <<>> /\ batch_loss' = 0 /\ epoch_loss' = <<0, 1>>
    /\ step_losses' = <<>> /\ batch_hist' = <<>> /\ result' = <<>>

SessionCallTrain ==
    /\ tpc = "idle" /\ ppc = "idle"
    /\ calls < MaxCalls
    /\ calls' = calls + 1
    /\ tpc' = "start"
    /\ n_seg' \in 1..MaxSessSize
    /\ T' \in 1..MaxSessSize
    /\ args_batch_size' \in 1..MaxSessSize
    /\ args_iter_num' = NoValue
    /\ args_up_fr' \in 1..MaxSessSize
    /\ init_len' \in 0..(MaxSessSize - 1)
    /\ bs' = BatchSizeUsed(args_batch_size', args_iter_num', n_seg')
    /\ up_fr' = args_up_fr'
    /\ TrainFreshNext
    /\ UNCHANGED <<procVars, grad, mainVars>>

SessionCallProc ==
    /\ tpc = "idle" /\ ppc = "idle"
    /\ calls < MaxCalls
    /\ calls' = calls + 1
    /\ ppc' = "loop"
    /\ \E n \in 1..(MaxSessSize + 1) :
         /\ input_data' \in SeqsOfLen(Samples, n)
         /\ output' \in SeqsOfLen(Values, n)
         /\ written' = [i \in 1..n |-> 0]
    /\ chunk' \in 1..MaxSessSize
    /\ val_chunk' \in 1..MaxSessSize
    /\ chunks' = <<>>
    /\ l' = NoValue
    /\ UNCHANGED <<hidden, trainVars, mainVars>>

\* The call has returned: its locals are gone, the network stays as it is.
SessionCallOver ==
    /\ tpc = "returned" \/ ppc = "returned"
    /\ tpc' = "idle" /\ n_seg' = 0 /\ T' = 0 /\ bs' = 0 /\ init_len' = 0 /\ up_fr' = 0
    /\ args_up_fr' = 0 /\ args_batch_size' = 0 /\ args_iter_num' = NoValue
    /\ TrainFreshNext
    /\ ppc' = "idle" /\ input_data' = <<>> /\ chunk' = 0 /\ val_chunk' = 0
    /\ output' = <<>> /\ written' = <<>> /\ chunks' = <<>> /\ l' = NoValue
    /\ UNCHANGED <<hidden, grad, mainVars, calls>>

CallTrain == SessionCallTrain
CallProc == SessionCallProc
CallOver == SessionCallOver

InitSession == ProcIdle /\ TrainIdle /\ MainIdle /\ calls = 0

NextSession ==
    \/ CallTrain
    \/ CallProc
    \/ CallOver
    \/ Shuffle
    \/ BatchStart
    \/ InnerStep
    \/ BatchEnd
    \/ Return
    \/ ProcChunk
    \/ ProcNoRemainder
    \/ ProcRemainderUnbound
    \/ ProcRemainder
    \/ ProcReturn

SpecSession == InitSession /\ [][NextSession]_vars

\* ---------------------------------------------------- claims on only_proc
\* The chunk lengths the specification asks for: c, ..., c, then n mod c if non-zero.
ExpectedChunks(n, c) ==
    [i \in 1..((n \div c) + (IF n % c # 0 THEN 1 ELSE 0)) |->
        IF i <= n \div c THEN c ELSE n % c]

\* One-shot processing of the whole input from the initial hidden state.
OneShot(x) == NnetRun(HiddenInit, x)[1]

\* Every slice handed to nnet held at least one sample (what the recurrent
\* layer does with an empty slice depends on the library version).
NoEmptySlice == \A i \in 1..Len(chunks) : chunks[i] > 0

\* C1: when only_proc returns, the time axis was processed in chunks of
\* length chunk followed by one chunk of length L mod chunk when that is
\* non-zero, every time index 0..L-1 of the output was written exactly once,
\* and the output has length L.
C1_EveryIndexWrittenOnce ==
    (ppc = "returned" /\ NoEmptySlice) =>
        /\ Len(output) = Len(input_data)
        /\ \A i \in 1..Len(written) : written[i] = 1
        /\ chunks = ExpectedChunks(Len(input_data), chunk)

\* C2: the output only_proc returns equals the output of one-shot processing
\* of the whole input by the same model from the same initial hidden state.
C2_EqualsOneShot ==
    (ppc = "returned" /\ NoEmptySlice) => output = OneShot(input_data)

\* -------------------------------------------------- claims on train_epoch
\* How many mini-batches hold segment index g.
Occurrences(g) ==
    Cardinality({<<i, j>> \in (1..Len(batches)) \X (1..MaxBatch + 1) :
                    j <= Len(batches[i]) /\ batches[i][j] = g})

\* C7: a call of train_epoch with n segments and batch size bs processes
\* exactly ceil(n / bs) mini-batches, every batch but the last has bs
\* segments, the last has n mod bs (bs when bs divides n), and every segment
\* index belongs to exactly one mini-batch.
C7_BatchPartition ==
    tpc = "returned" =>
        /\ Len(batches) = CeilDiv(n_seg, bs)
        /\ \A i \in 1..(Len(batches) - 1) : Len(batches[i]) = bs
        /\ Len(batches[Len(batches)]) = (IF n_seg % bs = 0 THEN bs ELSE n_seg % bs)
        /\ \A g \in 0..(n_seg - 1) : Occurrences(g) = 1

\* A finished epoch whose last batch is shorter than the others.
C7_Witness ==
    /\ tpc = "returned"
    /\ n_seg % bs # 0
    /\ Len(batches) >= 2
    /\ Len(batches[Len(batches)]) < bs

\* The TBPTT slices the specification asks for: consecutive ranges of length
\* uf from il, the last one clipped to t.
ExpectedSlices(il, uf, t) ==
    [i \in 1..CeilDiv(t - il, uf) |-> <<il + (i - 1) * uf, Min(il + i * uf, t)>>]

\* C8: for T > init_len and every value of the up_fr parameter, the inner
\* loop's input slices are the consecutive ranges of length up_fr starting
\* at init_len (the last possibly shorter), ceil((T - init_len) / up_fr) of
\* them, covering [init_len, T) with no gap and no overlap.
C8_InnerSlices ==
    T > init_len =>
        LET exp == ExpectedSlices(init_len, up_fr, T)
        IN  /\ Len(in_slices) <= Len(exp)
            /\ \A i \in 1..Len(in_slices) : in_slices[i] = exp[i]
            /\ (tpc \in {"batch", "returned"} /\ batch_it > 0) => Len(in_slices) = Len(exp)

\* ----------------------------------------------- claims on the main program
InLoopBody ==
    pc \in {"train", "val", "best", "bestvloss", "save_best", "best_wav", "latest",
            "raised_in_epoch"}

Wrote(f) == \E i \in 1..Len(io) : io[i] = f

\* The validation event of this epoch wrote the 'best' checkpoint.
WroteBestThisEpoch == Len(io) >= 2 /\ io[Len(io) - 1] = "model_best"

\* C3: at a validation event the 'best' checkpoint is written if and only
\* if the new validation loss is strictly less than every validation loss
\* recorded before it (always for a fresh model); an equal loss writes nothing.
C3_BestIffStrictlyLess ==
    (pc = "latest" /\ IsValidationEpoch(epoch, args.validation_f)) =>
        LET vl == network.training_info.validation_losses
        IN  WroteBestThisEpoch <=> (\A i \in 1..(Len(vl) - 1) : vl[Len(vl)] < vl[i])

\* A validation loss equal to the best so far, and no checkpoint written.
C3_Witness ==
    /\ pc = "latest"
    /\ IsValidationEpoch(epoch, args.validation_f)
    /\ LET vl == network.training_info.validation_losses
       IN  /\ Len(vl) >= 2
           /\ \A i \in 1..(Len(vl) - 1) : vl[Len(vl)] <= vl[i]
           /\ \E i \in 1..(Len(vl) - 1) : vl[Len(vl)] = vl[i]
    /\ ~WroteBestThisEpoch
    /\ disk["model_best"] # <<>>

\* C4: a process started from a 'latest' checkpoint of epoch E loads a
\* training-loss history of E entries, trains epoch E + 1 first, and writes
\* to every later 'latest' checkpoint a cumulative time no less than the one
\* it loaded.
C4_Resume ==
    launches >= 2 =>
        /\ Len(loaded.training_losses) = loaded.current_epoch
        /\ (epoch = NoValue => epoch_it = loaded.current_epoch + 1)
        /\ (pc = "train"
              /\ Len(network.training_info.training_losses) = Len(loaded.training_losses))
            => epoch = loaded.current_epoch + 1
        /\ Wrote("model") =>
             disk["model"][1].training_info.total_time >= loaded.total_time

\* A resumed process that has written a 'latest' checkpoint of its own.
C4_Witness ==
    /\ launches >= 2
    /\ loaded.current_epoch >= 1
    /\ Wrote("model")
    /\ disk["model"][1].training_info.current_epoch = loaded.current_epoch + 1

\* The epochs whose loop body has run to its end, in this process or before.
CompletedEpochs ==
    IF epoch = NoValue THEN loaded.current_epoch
    ELSE IF InLoopBody THEN epoch - 1
    ELSE epoch

\* C5: whenever the process can be interrupted, the 'latest' checkpoint on
\* disk records exactly the number of completed epochs, and a process
\* started after an interruption resumes at the interrupted epoch.
C5_LatestIsCompleted ==
    /\ disk["model"][1].training_info.current_epoch = CompletedEpochs
    /\ (epoch = NoValue /\ pc = "loop") => epoch_it = CompletedEpochs + 1

\* An epoch in progress, past its validation, with the previous epoch on disk.
C5_Witness ==
    /\ pc = "latest"
    /\ epoch >= 2
    /\ launches >= 2
    /\ network.training_info.current_epoch = epoch
    /\ disk["model"][1].training_info.current_epoch = epoch - 1

\* C6: once the epoch loop has ended, the run finishes both evaluations of
\* the test set, each writing its loss report: a run that has stopped after
\* writing testloss_final has also written testloss_bestv.
C6_BothEvaluationsFinish ==
    (pc \in {"exit", "raised"} /\ Wrote("testloss_final.txt")) =>
        Wrote("testloss_bestv.txt")

\* C9: when args.iter_num is set, the batch size is derived from it so that
\* each epoch processes exactly iter_num mini-batches (stated for the segment
\* counts that iter_num divides, where equal batches exist).
C9_IterNumBatches ==
    (tpc = "returned" /\ args_iter_num # NoValue /\ n_seg % args_iter_num = 0) =>
        Len(batches) = args_iter_num

\* The number of validation events since the last new best validation loss.
StaleValidations(vl) ==
    LET best == {i \in 1..Len(vl) : \A j \in 1..(i - 1) : vl[i] < vl[j]}
    IN  Len(vl) - (CHOOSE i \in best \cup {0} : \A j \in best : j <= i)

\* C10: with validation_p > 0 no further epoch is trained once validation_p
\* consecutive validation events have produced no new best validation loss.
C10_EarlyStopping ==
    (pc = "train" /\ args.validation_p > 0) =>
        StaleValidations(network.training_info.validation_losses) < args.validation_p

\* C11: test_out_final.wav is rendered from the output tensor the
\* final-model evaluation of the test set produced (test_output of line 231),
\* not from an output computed earlier on the validation set.
C11_FinalWavIsTestOutput ==
    (pc = "load_best" /\ Wrote("test_out_final.wav")) =>
        disk["test_out_final.wav"] = test_output

\* The training_info the epoch in progress started from: the 'latest'
\* checkpoint on disk, written at the end of the epoch before it.
EpochStartInfo == disk["model"][1].training_info

\* This step wrote file f.
Writes(f) == Len(io') = Len(io) + 1 /\ io'[Len(io')] = f

\* One step of the loop body of a running process (C12).
EpochOrderStep ==
    (launches' = launches /\ InLoopBody) =>
        LET ti == network.training_info
            tj == network'.training_info
            trained == Len(ti.training_losses) = Len(EpochStartInfo.training_losses) + 1
            untrained == Len(ti.training_losses) = Len(EpochStartInfo.training_losses)
            validated == Len(ti.validation_losses) = Len(EpochStartInfo.validation_losses) + 1
            unvalidated == Len(ti.validation_losses) = Len(EpochStartInfo.validation_losses)
        IN  /\ tj.training_losses # ti.training_losses =>
                 /\ untrained /\ unvalidated
                 /\ Len(tj.training_losses) = Len(ti.training_losses) + 1
                 /\ tj.validation_losses = ti.validation_losses
                 /\ disk' = disk
            /\ tj.validation_losses # ti.validation_losses =>
                 /\ trained /\ unvalidated
                 /\ epoch % args.validation_f = 0
                 /\ Len(tj.validation_losses) = Len(ti.validation_losses) + 1
                 /\ disk' = disk
            /\ Writes("model_best") =>
                 /\ trained /\ validated
                 /\ epoch % args.validation_f = 0
                 /\ disk'["model"] = disk["model"]
            /\ Writes("model") =>
                 /\ trained
                 /\ IF epoch % args.validation_f = 0 THEN validated ELSE unvalidated
                 /\ tj.current_epoch = epoch
                 /\ tj.total_time = TotalTimeOf(init_time, now, start_time)
                 /\ disk'["model"] = <<network'>>
                 /\ pc' = "loop"

\* C12: in every epoch of the main loop the training loss is appended to
\* the history first; then, only if epoch mod validation_f = 0, the
\* validation loss is appended and the 'best' checkpoint conditionally
\* written; then current_epoch and the cumulative time are updated and the
\* 'latest' checkpoint is written last. An epoch has a validation event if
\* and only if epoch mod validation_f = 0.
C12_EpochOrder == [][EpochOrderStep]_vars

\* A process that ran an epoch without validation, then an epoch whose
\* validation wrote the 'best' checkpoint, each ending with 'latest'.
C12_Witness ==
    /\ pc = "loop"
    /\ args.validation_f = 2
    /\ epoch = 2
    /\ io = <<"model", "bestvloss.txt", "model_best", "best_val_out.wav", "model">>
    /\ Len(network.training_info.training_losses) = 2
    /\ Len(network.training_info.validation_losses) = 1

\* ------------------------------------- claims on train_epoch's hidden state
\* C13: the hidden state carries no computation history when a TBPTT
\* chunk's forward pass begins, so every backward pass spans that chunk's
\* own time steps and no more (at most up_fr): neither the priming pass nor
\* an earlier chunk contributes to an optimizer update.
C13_BackwardSpansOneChunk ==
    /\ (tpc = "inner" /\ k_it < NumInner(T, init_len, up_fr)) => grad = 0
    /\ \A i \in 1..Len(spans) :
         /\ spans[i] = SliceLen(in_slices[i])
         /\ spans[i] <= up_fr

\* C14: starting from a model whose hidden state is initial, after any
\* sequence of train_epoch and only_proc calls the hidden state is at its
\* initial value at the start of every mini-batch's priming pass and at the
\* start of every only_proc call: it is reset after each mini-batch and
\* after each subset, never carried from one into the next.
C14_HiddenResetAtStarts ==
    /\ (tpc = "batch" /\ batch_it < NumBatches(Len(shuffle), bs)) => hidden = HiddenInit
    /\ (ppc = "loop" /\ l = NoValue) => hidden = HiddenInit
    /\ tpc \in {"start", "returned"} => hidden = HiddenInit
    /\ ppc = "returned" => hidden = HiddenInit

\* The second mini-batch of a call that follows other calls is about to be
\* primed, after the first one ran its TBPTT chunks.
C14_Witness ==
    /\ calls >= 2
    /\ tpc = "batch"
    /\ batch_it >= 1
    /\ batch_it < NumBatches(Len(shuffle), bs)
    /\ in_slices # <<>>
    /\ spans # <<>>
    /\ hidden = HiddenInit

\* C15: in every iteration of the inner loop, for every value of the up_fr
\* parameter, the target slice handed to the loss covers the same time range
\* [start_i, start_i + up_fr), clipped to T, as the input slice that produced
\* the output, and start_i advances by that same up_fr between iterations.
C15_TargetMatchesInput ==
    /\ \A i \in 1..Len(tg_slices) :
         /\ tg_slices[i] = in_slices[i]
         /\ in_slices[i] = PySlice(init_len + (i - 1) * up_fr, init_len + i * up_fr, T)
    /\ tpc = "inner" => start_i = init_len + k_it * up_fr

\* ---------------------------------------- claims on train_epoch's losses
RECURSIVE SumSeq(_)
SumSeq(sq) == IF sq = <<>> THEN 0 ELSE Head(sq) + SumSeq(Tail(sq))

\* The mean of a non-empty sequence of step losses.
MeanOf(sq) == Rat(SumSeq(sq), Len(sq))

RECURSIVE SumOfMeans(_)
SumOfMeans(h) == IF h = <<>> THEN <<0, 1>> ELSE RatAdd(MeanOf(Head(h)), SumOfMeans(Tail(h)))

\* C16: train_epoch returns the sum of the per-batch losses divided by the
\* number of mini-batches processed, each per-batch loss being the sum of
\* that batch's step losses divided by its number of inner-loop steps.
C16_MeanOfBatchMeans ==
    tpc = "returned" =>
        /\ Len(batch_hist) = Len(batches)
        /\ \A b \in 1..Len(batch_hist) : Len(batch_hist[b]) = NumInner(T, init_len, up_fr)
        /\ result = <<RatDiv(SumOfMeans(batch_hist), Len(batch_hist))>>

\* Three mini-batches of two steps each, with batch losses that differ.
C16_Witness ==
    /\ tpc = "returned"
    /\ Len(batch_hist) = 3
    /\ Len(batch_hist[1]) = 2
    /\ batch_hist[1][1] # batch_hist[1][2]
    /\ MeanOf(batch_hist[1]) # MeanOf(batch_hist[2])
    /\ result = <<Rat(SumSeq(batch_hist[1]) + SumSeq(batch_hist[2]) + SumSeq(batch_hist[3]), 6)>>

\* ------------------------------------- claims on the checkpoints on disk
\* The validation loss of the model a 'best' checkpoint file holds.
BestLossOf(file) == file[1].training_info.best_val_loss

\* C17: across epochs, interruptions between any two statements of the
\* epoch loop and resumes from the 'latest' checkpoint, the 'best'
\* checkpoint on disk is never overwritten by a model whose validation loss
\* is not strictly lower than that of the model it replaces.
C17_BestNeverWorse ==
    [][(disk["model_best"] # <<>> /\ disk'["model_best"] # disk["model_best"]) =>
          BestLossOf(disk'["model_best"]) < BestLossOf(disk["model_best"])]_vars

\* The least of the validation losses, +infinity when there is none.
MinLoss(vl) ==
    IF vl = <<>> THEN Infinity
    ELSE CHOOSE m \in {vl[i] : i \in 1..Len(vl)} : \A i \in 1..Len(vl) : m <= vl[i]

\* C18: for a run started fresh, with a fixed validation frequency, every
\* 'latest' checkpoint satisfies: training_losses has current_epoch entries,
\* validation_losses has as many entries as there are epochs e in
\* 1..current_epoch with e mod validation_f = 0, and best_val_loss is the
\* minimum of validation_losses (+infinity when empty); resumes from
\* 'latest' preserve this.
C18_LatestInvariants ==
    LET ti == disk["model"][1].training_info
    IN  /\ Len(ti.training_losses) = ti.current_epoch
        /\ Len(ti.validation_losses) =
              Cardinality({e \in 1..ti.current_epoch : e % args.validation_f = 0})
        /\ ti.best_val_loss = MinLoss(ti.validation_losses)

\* A resumed process has written a 'latest' checkpoint that holds two
\* validation losses, the second one lower than the first.
C18_Witness ==
    /\ launches >= 2
    /\ loaded.current_epoch >= 1
    /\ Wrote("model")
    /\ LET ti == disk["model"][1].training_info
       IN  /\ Len(ti.validation_losses) = 2
           /\ ti.validation_losses[2] < ti.validation_losses[1]
           /\ ti.best_val_loss = ti.validation_losses[2]
           /\ ti.current_epoch = loaded.current_epoch + 1

====
